---------------------------- MODULE Spec2Model ----------------------------
(* Model of SbFastClient (storyblok-fast-client): the paginated fetch      *)
(* (fetchMarketStories, fetchStories, processPromisesInBulks,              *)
(* promiseWithRetry) and the declared-field relation resolver              *)
(* (resolveRelations, resolveNestedComponents, findComponents).            *)
EXTENDS Integers, Sequences, FiniteSets, TLC

(***************************************************************************)
(* Bounds of the model.                                                    *)
(***************************************************************************)
\* largest number of pages the modelled server collection spans
MaxPages == 4
\* largest value of the SB_DATALAYER_RETRY environment variable tried
MaxEnvRetry == 1
\* largest bulkSize / maxRetries argument tried when processPromisesInBulks
\* is driven with its own arguments (SpecBulk)
MaxBulkSize == 3
MaxRetriesArg == 3

(***************************************************************************)
(* Program constants.                                                      *)
(***************************************************************************)
\* fetchMarketStories: per_page: 25
PerPage == 25
\* fetchStories: processPromisesInBulks(additionalPages, 20)
FetchBulkSize == 20
\* processPromisesInBulks defaults: maxRetries = 5, initialBackoff = 1000,
\* delayMultiplier = 2
DefaultMaxRetries == 5
DefaultInitialBackoff == 1000
DefaultDelayMultiplier == 2
\* fetchMarketStories: parseInt(process.env.SB_DATALAYER_RETRY ?? '5')
DefaultRetryAttempts == 5
\* fetchMarketStories: setTimeout(resolve, 10000)
TooManyRequestsPause == 10000

VARIABLES
  serverN,        \* environment: number of entries of the market's collection
  header,         \* environment: the 'total' header the first response carries
  pc,             \* position of the fetch: start, first_fetch, bulk_await,
                  \* returned, thrown
  retryAttempts,  \* fetchMarketStories: retryAttempts
  retries,        \* fetchMarketStories: loop variable retries
  calls,          \* history: number of fetchStories invocations
  pauses,         \* history: the pauses fetchMarketStories slept, in order
  lastCause,      \* history: what the last failed page-1 request rejected with
  thrown,         \* the error fetchMarketStories raised (NoError if none)
  total,          \* fetchStories: total
  totalPages,     \* fetchStories: totalPages
  allStories,     \* fetchStories: allStories (the returned list at the end)
  promisesFuncs,  \* processPromisesInBulks: the page each deferred op fetches
  bulkSize,       \* processPromisesInBulks: bulkSize
  maxRetries,     \* processPromisesInBulks: maxRetries
  initialBackoff, \* processPromisesInBulks: initialBackoff
  delayMultiplier,\* processPromisesInBulks: delayMultiplier
  i,              \* processPromisesInBulks: loop variable i
  results,        \* processPromisesInBulks: results
  ops,            \* one promiseWithRetry activation per deferred op
  log,            \* console.error('Failed to fetch:', reason) lines, in order
  firstRequests,  \* history: page-1 requests issued by fetchStories
  outOfOrder,     \* history: an op settled before an op of lower index of its bulk
  heap,           \* the objects of the fetched stories: object id -> (key -> value)
  raw,            \* history: heap as fetched
  stories,        \* getAllStories: stories, as the object ids of the entries
  dictionary,     \* referencedStoriesDictionary: uuid -> object id of the entry
  rpc,            \* position of the resolution: fetched, resolve, loop, done, thrown
  cur,            \* resolveRelations: index of the story stories.map is at
  counter,        \* resolveNestedComponents: counter
  iterations,     \* history: loop bodies run by resolveNestedComponents, per story
  rerror,         \* the error resolveRelations raised ("none" if none)
  pass,           \* history: 1 in the first run over the stories, 2 in a second
  snapshot,       \* history: heap when the second run began
  exits,          \* history: how resolveNestedComponents left, per story
  reservedKeys    \* the keys resolveRelationsForStory skips in this revision

fetchVars == <<serverN, header, pc, retryAttempts, retries, calls, pauses,
               lastCause, thrown, total, totalPages, allStories,
               promisesFuncs, bulkSize, maxRetries, initialBackoff,
               delayMultiplier, i, results, ops, log, firstRequests,
               outOfOrder>>

resolveVars == <<heap, raw, stories, dictionary, rpc, cur, counter, iterations,
                 rerror, pass, snapshot, exits, reservedKeys>>

(***************************************************************************)
(* Values.                                                                 *)
(***************************************************************************)
Min(a, b) == IF a < b THEN a ELSE b

\* A thrown JavaScript value: a bare string or an Error object; msg is the
\* text as a sequence of pieces (concatenation is \o).
NoError == [kind |-> "none", msg |-> <<>>]
TooManyRequests == [kind |-> "string", msg |-> <<"Too Many Requests">>]
NetworkError == [kind |-> "Error", msg |-> <<"fetch failed">>]
Causes == {TooManyRequests, NetworkError}

\* `${error}`: String(error); an Error prints as "Error: <message>"
ErrToString(e) == IF e.kind = "Error" THEN <<"Error: ">> \o e.msg ELSE e.msg

FetchStoriesError_bare(e) == e

\* fetchStories catch: throw new Error(`Failed to fetch to fetch stories: ${error}`)
FetchStoriesError(e) ==
  [kind |-> "Error", msg |-> <<"Failed to fetch to fetch stories: ">> \o ErrToString(e)]

\* fetchMarketStories: throw new Error(`[DATALAYER] Error in fetchMarketStories: ${err}`)
MarketError(e) ==
  [kind |-> "Error", msg |-> <<"[DATALAYER] Error in fetchMarketStories: ">> \o ErrToString(e)]

MaxRetryExceeded ==
  [kind |-> "Error",
   msg |-> <<"[DATALAYER] Error in fetchMarketStories: Maximum retry attempts exceeded">>]

\* promiseWithRetry: throw new Error('Max retries reached')
MaxRetriesReached == [kind |-> "Error", msg |-> <<"Max retries reached">>]

\* fetchMarketStories: err === 'Too Many Requests' (strict equality with a string)
IsTooManyRequests(e) == e.kind = "string" /\ e.msg = <<"Too Many Requests">>

(***************************************************************************)
(* The server: a collection of serverN entries, numbered 1..serverN,       *)
(* served in pages of per_page.                                            *)
(***************************************************************************)
ServerPage(p, n, per_page) ==
  LET lo == (p - 1) * per_page + 1
      hi == Min(p * per_page, n)
  IN  IF hi < lo THEN <<>> ELSE [x \in 1..(hi - lo + 1) |-> lo + x - 1]

\* collection sizes tried: empty, and for every page count a last page
\* holding one entry and a full last page
Totals == {0} \cup {(p - 1) * PerPage + r : p \in 1..MaxPages, r \in {1, PerPage}}

\* the 'total' header: absent, not a number, or the decimal text of n
HeaderAbsent == [kind |-> "absent", n |-> 0]
HeaderGarbage == [kind |-> "garbage", n |-> 0]
HeaderDigits(n) == [kind |-> "digits", n |-> n]

\* the SB_DATALAYER_RETRY variable: unset or the decimal text of n ('0'
\* leaves no attempt at all)
EnvValues == {HeaderAbsent} \cup {HeaderDigits(n) : n \in 0..MaxEnvRetry}

(***************************************************************************)
(* fetchStories: page count.                                               *)
(***************************************************************************)
ParseTotal_lenient(h) == IF h.kind = "digits" THEN h.n ELSE PerPage + 1

\* parseInt(firstResponse.headers.get('total') ?? '0') || 0
ParseTotal(h) ==
  CASE h.kind = "absent" -> 0     \* parseInt('0') || 0
    [] h.kind = "garbage" -> 0    \* NaN || 0
    [] OTHER -> h.n

\* Math.ceil(total / per_page), total >= 0
TotalPages_floor(t, per_page) == t \div per_page
TotalPages(t, per_page) == (t + per_page - 1) \div per_page

\* for (let page = 2; page <= totalPages; page++) additionalPages.push(...)
AdditionalPages_fromOne(tp) == IF tp < 1 THEN <<>> ELSE [j \in 1..tp |-> j]
AdditionalPages(tp) == IF tp < 2 THEN <<>> ELSE [j \in 1..(tp - 1) |-> j + 1]

\* parseInt(process.env.SB_DATALAYER_RETRY ?? '5')
ParseRetryAttempts(e) == IF e.kind = "absent" THEN DefaultRetryAttempts ELSE e.n

\* additionalStories.flat(): one level of arrays is spliced in; the elements
\* here are story objects, never arrays, so every element is kept as it is
IsArray(e) == FALSE
RECURSIVE Flat(_)
Flat(s) ==
  IF s = <<>> THEN <<>>
  ELSE (IF IsArray(Head(s)) THEN Head(s) ELSE <<Head(s)>>) \o Flat(Tail(s))

(***************************************************************************)
(* promiseWithRetry: one activation.                                       *)
(*   st        idle (not started), running (promiseFunction in flight),    *)
(*             sleeping (in the backoff setTimeout), fulfilled, rejected   *)
(*   attempts  the local variable attempts                                 *)
(*   delay     the local variable delay                                    *)
(*   requests  history: calls of promiseFunction                           *)
(*   sleeps    history: the setTimeout durations, in order                 *)
(***************************************************************************)
IdleOp == [st |-> "idle", attempts |-> 0, delay |-> 0, requests |-> 0,
           sleeps |-> <<>>, value |-> <<>>, reason |-> NoError]

\* while (attempts < retries) { try { return await promiseFunction(); ...
\* and after the loop: throw new Error('Max retries reached')
RetryLoop(op, retries_) ==
  IF op.attempts < retries_
    THEN [op EXCEPT !.st = "running", !.requests = @ + 1]
    ELSE [op EXCEPT !.st = "rejected", !.reason = MaxRetriesReached]

\* entry of promiseWithRetry: let attempts = 0, then the loop
RetryStart(retries_, delay_) ==
  RetryLoop([IdleOp EXCEPT !.delay = delay_], retries_)

\* return await promiseFunction(): the op resolved with value v
RetryOnSuccess(op, v) == [op EXCEPT !.st = "fulfilled", !.value = v]

\* catch: attempts++; if (attempts < retries) await setTimeout(delay)
RetryOnFailure_sleepLast(op, retries_) ==
  [op EXCEPT !.attempts = @ + 1, !.st = "sleeping",
             !.sleeps = Append(@, op.delay)]
RetryOnFailure(op, retries_) ==
  LET a == op.attempts + 1
  IN  IF a < retries_
        THEN [op EXCEPT !.attempts = a, !.st = "sleeping",
                        !.sleeps = Append(@, op.delay)]
        ELSE RetryLoop([op EXCEPT !.attempts = a], retries_)

\* the timer fired: delay *= delayMultiplier, then the loop again
RetryOnWake(op, retries_, mult) ==
  RetryLoop([op EXCEPT !.delay = @ * mult], retries_)

Settled(op) == op.st \in {"fulfilled", "rejected"}
InFlight(op) == op.st \in {"running", "sleeping"}

(***************************************************************************)
(* processPromisesInBulks.                                                 *)
(***************************************************************************)
\* promisesFuncs.slice(i, i + bulkSize): the (1-based) indices of the bulk
Bulk(funcs, i_, bs) == {j \in 1..Len(funcs) : i_ < j /\ j <= i_ + bs}

\* await Promise.allSettled(...): resolves when every member has settled
BulkSettled_any(os, funcs, i_, bs) ==
  \E j \in Bulk(funcs, i_, bs) : Settled(os[j])
BulkSettled(os, funcs, i_, bs) ==
  \A j \in Bulk(funcs, i_, bs) : Settled(os[j])

\* bulk.map((func) => this.promiseWithRetry(func, maxRetries, initialBackoff,
\* delayMultiplier)): every member of the bulk is started
StartBulk(os, funcs, i_, bs, mr, ib) ==
  [j \in DOMAIN os |-> IF j \in Bulk(funcs, i_, bs) THEN RetryStart(mr, ib) ELSE os[j]]

\* bulkResults.forEach: results.push(...result.value) for the fulfilled
\* members, in the order of the bulk
RECURSIVE PushResults_abort(_, _, _, _)
PushResults_abort(res, os, lo, hi) ==
  IF lo > hi \/ os[lo].st # "fulfilled" THEN res
  ELSE PushResults_abort(res \o os[lo].value, os, lo + 1, hi)

RECURSIVE PushResults_reverse(_, _, _, _)
PushResults_reverse(res, os, lo, hi) ==
  IF lo > hi THEN res
  ELSE PushResults_reverse(IF os[hi].st = "fulfilled" THEN res \o os[hi].value
                           ELSE res,
                           os, lo, hi - 1)

RECURSIVE PushResults(_, _, _, _)
PushResults(res, os, lo, hi) ==
  IF lo > hi THEN res
  ELSE PushResults(IF os[lo].st = "fulfilled" THEN res \o os[lo].value ELSE res,
                   os, lo + 1, hi)

\* bulkResults.forEach: console.error('Failed to fetch:', result.reason) for
\* the rejected members (op is the member's index, kept for the history)
RECURSIVE LogFailures(_, _, _, _)
LogFailures(lg, os, lo, hi) ==
  IF lo > hi THEN lg
  ELSE LogFailures(IF os[lo].st = "fulfilled" THEN lg
                   ELSE Append(lg, [op |-> lo, reason |-> os[lo].reason]),
                   os, lo + 1, hi)


\* One pass through the top of the for loop of processPromisesInBulks with
\* loop index ii: either the next bulk is started (and the method awaits
\* it), or the loop is over, the method returns results and fetchStories
\* returns allStories.concat(additionalStories.flat()).
BulkLoop(funcs, bs, mr, ib, ii, res, os, lg, first) ==
  IF ii < Len(funcs)
    THEN [pc |-> "bulk_await", i |-> ii, results |-> res, log |-> lg,
          ops |-> StartBulk(os, funcs, ii, bs, mr, ib), allStories |-> first]
    ELSE [pc |-> "returned", i |-> ii, results |-> res, log |-> lg,
          ops |-> os, allStories |-> first \o Flat(res)]

\* fetchAdditionalStories(per_page, page, language, cv) when the request
\* succeeds: data.stories ?? [], and stories.length ? stories : []
FetchAdditionalStories(page) == ServerPage(page, serverN, PerPage)

\* fetchStories, from a successful first response on: total, totalPages,
\* allStories = firstData.stories ?? [], the additional pages and the call
\* processPromisesInBulks(additionalPages, bs, mr, ib, dm)
AfterFirstResponse(h, n, bs, mr, ib) ==
  LET t == ParseTotal(h)
      tp == TotalPages(t, PerPage)
      funcs == AdditionalPages(tp)
  IN  [total |-> t, totalPages |-> tp, promisesFuncs |-> funcs,
       loop |-> BulkLoop(funcs, bs, mr, ib, 0, <<>>,
                         [j \in 1..Len(funcs) |-> IdleOp], <<>>,
                         ServerPage(1, n, PerPage))]

(***************************************************************************)
(* Initial states.                                                         *)
(***************************************************************************)
\* no story has been fetched: the resolution has nothing to work on
ResolveIdle ==
  /\ heap = <<>>
  /\ raw = <<>>
  /\ stories = <<>>
  /\ dictionary = <<>>
  /\ rpc = "idle"
  /\ cur = 0
  /\ counter = 0
  /\ iterations = <<>>
  /\ rerror = "none"
  /\ pass = 1
  /\ snapshot = <<>>
  /\ exits = <<>>
  /\ reservedKeys = {}

\* fetchMarketStories has been called and has not run yet
InitFetch ==
  /\ serverN \in Totals
  /\ header \in {HeaderAbsent, HeaderGarbage, HeaderDigits(serverN)}
  /\ pc = "start"
  /\ \E e \in EnvValues : retryAttempts = ParseRetryAttempts(e)
  /\ retries = 0
  /\ calls = 0
  /\ pauses = <<>>
  /\ lastCause = NoError
  /\ thrown = NoError
  /\ total = 0
  /\ totalPages = 0
  /\ allStories = <<>>
  /\ promisesFuncs = <<>>
  /\ bulkSize = FetchBulkSize
  /\ maxRetries = DefaultMaxRetries
  /\ initialBackoff = DefaultInitialBackoff
  /\ delayMultiplier = DefaultDelayMultiplier
  /\ i = 0
  /\ results = <<>>
  /\ ops = <<>>
  /\ log = <<>>
  /\ firstRequests = 0
  /\ outOfOrder = FALSE
  /\ ResolveIdle

\* initialBackoff and delayMultiplier arguments tried
RetryTimings == {<<100, 2>>, <<1000, 3>>}

\* fetchStories has received its first response and has called
\* processPromisesInBulks with arguments drawn from small sets
InitBulk ==
  /\ serverN \in Totals
  /\ header = HeaderDigits(serverN)
  /\ retryAttempts = DefaultRetryAttempts
  /\ retries = 0
  /\ calls = 1
  /\ pauses = <<>>
  /\ lastCause = NoError
  /\ thrown = NoError
  /\ bulkSize \in 1..MaxBulkSize
  /\ maxRetries \in 1..MaxRetriesArg
  /\ \E t \in RetryTimings : initialBackoff = t[1] /\ delayMultiplier = t[2]
  /\ LET a == AfterFirstResponse(header, serverN, bulkSize, maxRetries, initialBackoff)
     IN  /\ total = a.total
         /\ totalPages = a.totalPages
         /\ promisesFuncs = a.promisesFuncs
         /\ pc = a.loop.pc
         /\ i = a.loop.i
         /\ results = a.loop.results
         /\ log = a.loop.log
         /\ ops = a.loop.ops
         /\ allStories = a.loop.allStories
  /\ firstRequests = 1
  /\ outOfOrder = FALSE
  /\ ResolveIdle

(***************************************************************************)
(* Actions of the fetch.                                                   *)
(***************************************************************************)
\* fetchMarketStories up to its first await: the loop test and the call of
\* fetchStories, which issues the page-1 request
FetchMarketStories ==
  /\ pc = "start"
  /\ IF retries < retryAttempts
       THEN /\ pc' = "first_fetch"
            /\ calls' = calls + 1
            /\ firstRequests' = firstRequests + 1
            /\ thrown' = thrown
       ELSE /\ pc' = "thrown"
            /\ calls' = calls
            /\ firstRequests' = firstRequests
            /\ thrown' = MaxRetryExceeded
  /\ UNCHANGED <<serverN, header, retryAttempts, retries, pauses, lastCause,
                 total, totalPages, allStories, promisesFuncs, bulkSize,
                 maxRetries, initialBackoff, delayMultiplier, i, results,
                 ops, log, outOfOrder>>
  /\ UNCHANGED resolveVars

\* the page-1 response arrives: fetchStories lines 262-277
FirstFetchOk ==
  /\ pc = "first_fetch"
  /\ LET a == AfterFirstResponse(header, serverN, FetchBulkSize,
                                 DefaultMaxRetries, DefaultInitialBackoff)
     IN  /\ total' = a.total
         /\ totalPages' = a.totalPages
         /\ promisesFuncs' = a.promisesFuncs
         /\ pc' = a.loop.pc
         /\ i' = a.loop.i
         /\ results' = a.loop.results
         /\ log' = a.loop.log
         /\ ops' = a.loop.ops
         /\ allStories' = a.loop.allStories
  /\ bulkSize' = FetchBulkSize
  /\ maxRetries' = DefaultMaxRetries
  /\ initialBackoff' = DefaultInitialBackoff
  /\ delayMultiplier' = DefaultDelayMultiplier
  /\ UNCHANGED <<serverN, header, retryAttempts, retries, calls, pauses,
                 lastCause, thrown, firstRequests, outOfOrder>>
  /\ UNCHANGED resolveVars

\* what fetchMarketStories does with the error err caught from fetchStories:
\* pause and go round the loop, or re-raise
MarketCatch_swallow(err) == "pause"
MarketCatch(err) ==
  IF IsTooManyRequests(err) THEN "pause" ELSE "throw"

\* the page-1 request rejects with cause: fetchStories wraps it (line 286),
\* fetchMarketStories catches the wrapped error (lines 306-314); after a
\* pause the loop goes on with retries + 1 (nothing else is in flight
\* during the pause, so pause and next loop test are one step)
FirstFetchFail ==
  /\ pc = "first_fetch"
  /\ \E cause \in Causes :
       LET err == FetchStoriesError(cause)
       IN  /\ lastCause' = cause
           /\ IF MarketCatch(err) = "pause"
                THEN /\ pauses' = Append(pauses, TooManyRequestsPause)
                     /\ retries' = retries + 1
                     /\ IF retries + 1 < retryAttempts
                          THEN /\ pc' = "first_fetch"
                               /\ calls' = calls + 1
                               /\ firstRequests' = firstRequests + 1
                               /\ thrown' = thrown
                          ELSE /\ pc' = "thrown"
                               /\ calls' = calls
                               /\ firstRequests' = firstRequests
                               /\ thrown' = MaxRetryExceeded
                ELSE /\ pauses' = pauses
                     /\ retries' = retries
                     /\ pc' = "thrown"
                     /\ calls' = calls
                     /\ firstRequests' = firstRequests
                     /\ thrown' = MarketError(err)
  /\ UNCHANGED <<serverN, header, retryAttempts, total, totalPages,
                 allStories, promisesFuncs, bulkSize, maxRetries,
                 initialBackoff, delayMultiplier, i, results, ops, log,
                 outOfOrder>>
  /\ UNCHANGED resolveVars

bulkFrame == <<serverN, header, retryAttempts, retries, calls, pauses,
               lastCause, thrown, total, totalPages, promisesFuncs, bulkSize,
               maxRetries, initialBackoff, delayMultiplier, firstRequests,
               heap, raw, stories,
               dictionary, rpc, cur, counter, iterations, rerror, pass,
               snapshot, exits, reservedKeys>>

\* op j has settled while an op of lower index of the bulk in flight has not
Overtakes(os, j) ==
  /\ Settled(os[j])
  /\ \E k \in Bulk(promisesFuncs, i, bulkSize) : k < j /\ ~Settled(os[k])

\* the request of op j succeeds
AttemptOk(j) ==
  /\ pc = "bulk_await"
  /\ ops[j].st = "running"
  /\ ops' = [ops EXCEPT ![j] = RetryOnSuccess(@, FetchAdditionalStories(promisesFuncs[j]))]
  /\ outOfOrder' = (outOfOrder \/ Overtakes(ops', j))
  /\ UNCHANGED <<pc, i, results, log, allStories>>
  /\ UNCHANGED bulkFrame

\* the request of op j fails
AttemptFail(j) ==
  /\ pc = "bulk_await"
  /\ ops[j].st = "running"
  /\ ops' = [ops EXCEPT ![j] = RetryOnFailure(@, maxRetries)]
  /\ outOfOrder' = (outOfOrder \/ Overtakes(ops', j))
  /\ UNCHANGED <<pc, i, results, log, allStories>>
  /\ UNCHANGED bulkFrame

\* the backoff timer of op j fires
Wake(j) ==
  /\ pc = "bulk_await"
  /\ ops[j].st = "sleeping"
  /\ ops' = [ops EXCEPT ![j] = RetryOnWake(@, maxRetries, delayMultiplier)]
  /\ UNCHANGED <<pc, i, results, log, allStories, outOfOrder>>
  /\ UNCHANGED bulkFrame

\* Promise.allSettled resolves: the forEach over the bulk, i += bulkSize and
\* the next pass of the loop
BulkSettle ==
  /\ pc = "bulk_await"
  /\ BulkSettled(ops, promisesFuncs, i, bulkSize)
  /\ LET hi == Min(i + bulkSize, Len(promisesFuncs))
         nxt == BulkLoop(promisesFuncs, bulkSize, maxRetries, initialBackoff,
                         i + bulkSize,
                         PushResults(results, ops, i + 1, hi), ops,
                         LogFailures(log, ops, i + 1, hi), allStories)
     IN  /\ pc' = nxt.pc
         /\ i' = nxt.i
         /\ results' = nxt.results
         /\ log' = nxt.log
         /\ ops' = nxt.ops
         /\ allStories' = nxt.allStories
  /\ UNCHANGED outOfOrder
  /\ UNCHANGED bulkFrame

vars == <<fetchVars, resolveVars>>

NextBulk ==
  \/ \E j \in DOMAIN ops : AttemptOk(j)
  \/ \E j \in DOMAIN ops : AttemptFail(j)
  \/ \E j \in DOMAIN ops : Wake(j)
  \/ BulkSettle

Next ==
  \/ FetchMarketStories
  \/ FirstFetchOk
  \/ FirstFetchFail
  \/ \E j \in DOMAIN ops : AttemptOk(j)
  \/ \E j \in DOMAIN ops : AttemptFail(j)
  \/ \E j \in DOMAIN ops : Wake(j)
  \/ BulkSettle

Spec == InitFetch /\ [][Next]_vars
SpecBulk == InitBulk /\ [][NextBulk]_vars

(***************************************************************************)
(* Properties of the fetch.                                                *)
(***************************************************************************)
Count(e, s) == Cardinality({k \in DOMAIN s : s[k] = e})
NoRequestFailed == \A j \in DOMAIN ops : ops[j].attempts = 0
\* the page entry e of the collection is served on
PageOf(e) == ((e - 1) \div PerPage) + 1
\* the ops that fetch page p
OpsOfPage(p) == {j \in DOMAIN promisesFuncs : promisesFuncs[j] = p}
PageFulfilled(p) == \E j \in OpsOfPage(p) : ops[j].st = "fulfilled"
\* the bulk (0, 1, ...) op j belongs to
ChunkOf(j) == (j - 1) \div bulkSize

\* C1: when no request fails and the first response reports total = N for a
\* collection of N entries, fetchStories returns exactly the N entries,
\* page 1's first and then those of pages 2..ceil(N/25), and each of those
\* pages is requested by exactly one op, exactly once.
C1_PaginationComplete ==
  (pc = "returned" /\ header = HeaderDigits(serverN) /\ NoRequestFailed) =>
     /\ allStories = [x \in 1..serverN |-> x]
     /\ \A p \in 2..(MaxPages + 2) :
          IF (p - 1) * PerPage < serverN
            THEN /\ Cardinality(OpsOfPage(p)) = 1
                 /\ \A j \in OpsOfPage(p) : ops[j].requests = 1
            ELSE OpsOfPage(p) = {}

C1_Witness ==
  /\ pc = "returned" /\ header = HeaderDigits(serverN) /\ NoRequestFailed
  /\ serverN = 2 * PerPage + 1
  /\ Len(allStories) = serverN

\* C2: an op that fails on all of its maxRetries attempts contributes no
\* entries and is logged exactly once, and the batch goes on: at the end
\* every op has run and settled, every fulfilled op's entries are in the
\* result (once), and nothing else is.
C2_BulkPartialFailure ==
  (pc = "returned") =>
     /\ \A j \in DOMAIN ops :
          /\ Settled(ops[j]) /\ ops[j].requests >= 1
          /\ (ops[j].st = "rejected") = (ops[j].attempts = maxRetries)
          /\ Cardinality({k \in DOMAIN log : log[k].op = j}) =
               (IF ops[j].st = "rejected" THEN 1 ELSE 0)
     /\ \A e \in 1..serverN :
          Count(e, allStories) =
            (IF PageOf(e) = 1 \/ PageFulfilled(PageOf(e)) THEN 1 ELSE 0)
     /\ \A k \in DOMAIN allStories : allStories[k] \in 1..serverN

\* page 3 fails for good in a bulk whose other member succeeds, and a later
\* bulk succeeds
C2_Witness ==
  /\ pc = "returned"
  /\ bulkSize = 2
  /\ Len(promisesFuncs) >= 3
  /\ ops[2].st = "rejected" /\ promisesFuncs[2] = 3
  /\ ops[1].st = "fulfilled" /\ ops[3].st = "fulfilled"
  /\ Len(log) = 1
  /\ Len(allStories) = serverN - PerPage

\* C3: no op of a later bulk is started before every op of every earlier
\* bulk has settled, and never more than bulkSize ops are in flight.
C3_ChunkBarrier ==
  /\ \A j, k \in DOMAIN ops :
       (ChunkOf(j) < ChunkOf(k) /\ ops[k].st # "idle") => Settled(ops[j])
  /\ Cardinality({j \in DOMAIN ops : InFlight(ops[j])}) <= bulkSize

\* the second bulk is in flight, after a bulk in which an op went through a
\* backoff sleep
C3_Witness ==
  /\ pc = "bulk_await"
  /\ bulkSize = 2
  /\ i = 2
  /\ Len(promisesFuncs) >= 3
  /\ ops[3].st = "sleeping"
  /\ ops[1].sleeps # <<>> /\ ops[2].st = "rejected"

RECURSIVE Pow(_, _)
Pow(b, e) == IF e = 0 THEN 1 ELSE b * Pow(b, e - 1)

\* C4: the sleep after the failed attempt of index x is
\* initialBackoff * delayMultiplier^x; an op that failed on every attempt has
\* made exactly maxRetries attempts, has slept after each but the last, and
\* is rejected with the exhaustion error.
C4_BackoffTiming ==
  \A j \in DOMAIN ops :
    /\ \A x \in DOMAIN ops[j].sleeps :
         ops[j].sleeps[x] = initialBackoff * Pow(delayMultiplier, x - 1)
    /\ (ops[j].st = "rejected") =>
         /\ ops[j].attempts = maxRetries
         /\ ops[j].requests = maxRetries
         /\ Len(ops[j].sleeps) = maxRetries - 1
         /\ ops[j].reason = MaxRetriesReached

C4_Witness ==
  /\ maxRetries = 3 /\ initialBackoff = 100 /\ delayMultiplier = 2
  /\ \E j \in DOMAIN ops :
       /\ ops[j].st = "rejected"
       /\ ops[j].requests = 3
       /\ ops[j].sleeps = <<100, 200>>

\* C5: a fulfilled op made exactly one request more than it had failures
\* (none after its success), and in the returned list no entry appears more
\* than once and every entry of a fulfilled page appears exactly once.
C5_ExactlyOncePerPage ==
  /\ \A j \in DOMAIN ops :
       ops[j].st = "fulfilled" =>
         /\ ops[j].requests = ops[j].attempts + 1
         /\ ops[j].attempts < DefaultMaxRetries
  /\ (pc = "returned") =>
       \A e \in 1..(PerPage * (MaxPages + 1)) :
         /\ Count(e, allStories) <= 1
         /\ (e <= serverN /\ PageOf(e) >= 2 /\ PageFulfilled(PageOf(e)))
              => Count(e, allStories) = 1

\* two pages succeeded after different numbers of transient failures
C5_Witness ==
  /\ pc = "returned"
  /\ Len(promisesFuncs) >= 2
  /\ ops[1].st = "fulfilled" /\ ops[1].attempts = 4
  /\ ops[2].st = "fulfilled" /\ ops[2].attempts = 1
  /\ Len(allStories) = serverN

\* C6: after a page-1 failure with the too-many-requests signal,
\* fetchMarketStories pauses 10 seconds and retries while fewer than
\* retryAttempts attempts were made: it does not end in an error while
\* attempts remain.
C6_OuterRetryOnThrottle ==
  ~(pc = "thrown" /\ lastCause = TooManyRequests /\ calls < retryAttempts)

\* C20: fetchStories is invoked at most retryAttempts times; after a failure
\* that is not the too-many-requests signal the error is re-raised with no
\* further attempt; and once the attempts are used up the call has raised
\* 'Maximum retry attempts exceeded' and returns no entries.
C20_OuterRetryBounded ==
  /\ calls <= retryAttempts
  /\ (lastCause # NoError /\ lastCause # TooManyRequests) =>
       /\ pc = "thrown"
       /\ thrown = MarketError(FetchStoriesError(lastCause))
       /\ calls = retries + 1
       /\ pauses = <<>>
  /\ (retries >= retryAttempts /\ pc # "start") =>
       /\ pc = "thrown"
       /\ thrown = MaxRetryExceeded
       /\ allStories = <<>>

\* the page-1 request failed with an error other than the signal while
\* attempts were left: the error was re-raised after the one attempt
C20_Witness ==
  /\ pc = "thrown"
  /\ lastCause = NetworkError
  /\ retryAttempts = DefaultRetryAttempts
  /\ calls = 1
  /\ thrown = MarketError(FetchStoriesError(NetworkError))

\* the least m with m * d >= t
CeilDiv(t, d) == CHOOSE m \in 0..t : m * d >= t /\ \A n \in 0..t : n * d >= t => m <= n

\* C21: after a successful page-1 response the pages fetchStories asks for
\* are exactly 2..ceil(total / per_page), total being the number in the
\* total header; with the header absent or not a number it asks for no
\* further page and returns exactly the entries of page 1.
C21_PageCountDerivation ==
  (pc \in {"bulk_await", "returned"}) =>
    LET t == IF header.kind = "digits" THEN header.n ELSE 0
        last == CeilDiv(t, PerPage)
    IN  /\ promisesFuncs = (IF last < 2 THEN <<>> ELSE [j \in 1..(last - 1) |-> j + 1])
        /\ DOMAIN ops = DOMAIN promisesFuncs
        /\ (pc = "returned") => \A j \in DOMAIN ops : ops[j].requests >= 1
        /\ (header.kind # "digits") =>
             /\ ops = <<>>
             /\ pc = "returned"
             /\ allStories = [x \in 1..Min(serverN, PerPage) |-> x]

\* the header was not a number although the collection has three pages:
\* fetchStories returned the entries of page 1 and asked for nothing else
C21_Witness ==
  /\ pc = "returned"
  /\ header = HeaderGarbage
  /\ serverN = 2 * PerPage + 1
  /\ ops = <<>>
  /\ Len(allStories) = PerPage

\* the values of the fulfilled ops among ops 1..j, by op index
RECURSIVE InIndexOrder(_)
InIndexOrder(j) ==
  IF j = 0 THEN <<>>
  ELSE InIndexOrder(j - 1) \o (IF ops[j].st = "fulfilled" THEN ops[j].value ELSE <<>>)

\* each element is less than the next
Ascending(s) == \A x \in 1..(Len(s) - 1) : s[x] < s[x + 1]

\* C22: the list processPromisesInBulks returns holds the results of the
\* fulfilled ops in the order of the op indices, so fetchStories returns
\* the entries in ascending page order, whatever the order in which the
\* ops of a bulk settled and however many retries each took.
C22_ResultOrder ==
  /\ Ascending(results)
  /\ (pc = "returned") =>
       /\ results = InIndexOrder(Len(ops))
       /\ allStories = [x \in 1..Min(serverN, PerPage) |-> x] \o results
       /\ Ascending(allStories)

\* both ops of one bulk succeeded, the second at once and before the first,
\* which needed two retries
C22_Witness ==
  /\ pc = "returned"
  /\ outOfOrder
  /\ bulkSize >= 2
  /\ Len(ops) = 2
  /\ ops[1].st = "fulfilled" /\ ops[1].attempts = 2
  /\ ops[2].st = "fulfilled" /\ ops[2].attempts = 0
  /\ Len(allStories) = serverN

\* C23: every call of fetchStories issues the page-1 request exactly once;
\* no request for a page >= 2 is made unless the page-1 request succeeded;
\* and when the page-1 request fails fetchStories raises its error
\* ('Failed to fetch to fetch stories: ...'), returns no entry and asks
\* for no other page.
C23_FirstPageOutsideRetrier ==
  /\ firstRequests = calls
  /\ (\E j \in DOMAIN ops : ops[j].requests > 0) =>
       /\ lastCause = NoError
       /\ pc \in {"bulk_await", "returned"}
  /\ (lastCause # NoError) =>
       /\ pc = "thrown"
       /\ thrown = MarketError([kind |-> "Error",
                                msg |-> <<"Failed to fetch to fetch stories: ">>
                                          \o ErrToString(lastCause)])
       /\ allStories = <<>>
       /\ ops = <<>>

\* the one page-1 request of the call was rejected with the
\* too-many-requests value: nothing else was requested, nothing returned
C23_Witness ==
  /\ pc = "thrown"
  /\ lastCause = TooManyRequests
  /\ calls = 1
  /\ firstRequests = 1
  /\ serverN > PerPage
  /\ ops = <<>>
  /\ allStories = <<>>

(***************************************************************************)
(* The relation resolver: resolveRelations, resolveNestedComponents,       *)
(* findComponents.                                                         *)
(*                                                                         *)
(* A JavaScript value is a string, undefined, an array (held by value: no  *)
(* array of a story is shared or changed in place) or a reference to an    *)
(* object of the heap (objects are shared: the dictionary holds the very   *)
(* story objects that are resolved in place).                              *)
(***************************************************************************)
Str(x) == [t |-> "str", s |-> x, o |-> 0, a |-> <<>>]
Ref(x) == [t |-> "ref", s |-> "", o |-> x, a |-> <<>>]
Arr(x) == [t |-> "arr", s |-> "", o |-> 0, a |-> x]
Undef == [t |-> "undef", s |-> "", o |-> 0, a |-> <<>>]
\* a number: a value that is neither a string nor an object
Num(x) == [t |-> "num", s |-> "", o |-> x, a |-> <<>>]

\* utils: RELATIONS_TO_RESOLVE, each item already split at its '.'
RELATIONS_TO_RESOLVE ==
  <<
     <<"Target", "modelLabel">>,
     <<"Target", "modalTemplate">>,
     <<"List", "label">>,
     <<"Template", "story">>,
     <<"destination", "tagLabel">>,
     <<"DestinationList", "label">>,
     <<"DestinationList", "fromLabel">>,
     <<"DestinationList", "funnelingLabels">>,
     <<"DestinationCarousel", "staticCards">>,
     <<"DestinationCarousel", "fromLabel">>,
     <<"DestinationCarousel", "seeAllLabel">>,
     <<"DestinationCarousel", "funnelingLabels">>,
     <<"List", "label">>,
     <<"ProductCarousel", "products">>,
     <<"Stories", "openCloseLabels">>,
     <<"Stories", "previousNextLabels">>,
     <<"Stories", "muteUnmuteLabels">>,
     <<"Template", "story">>,
     <<"Testimonial", "labels">>,
     <<"Target", "funnelingLabels">>,
     <<"gallery", "moreLabel">>,
     <<"InfomeetingCard", "showLabels">>,
     <<"InfomeetingCard", "checkboxLabel">>,
     <<"PopUp", "dialogTemplate">>
  >>

\* resolveNestedComponents: maxLevelOfNesting = 10
MaxLevelOfNesting == 10

\* the characters of the field names and keys of the model
Chars(n) ==
  CASE n = "modelLabel" -> <<"m", "o", "d", "e", "l", "L", "a", "b", "e", "l">>
    [] n = "modalTemplate" -> <<"m", "o", "d", "a", "l", "T", "e", "m", "p", "l", "a", "t", "e">>
    [] n = "label" -> <<"l", "a", "b", "e", "l">>
    [] n = "story" -> <<"s", "t", "o", "r", "y">>
    [] n = "tagLabel" -> <<"t", "a", "g", "L", "a", "b", "e", "l">>
    [] n = "fromLabel" -> <<"f", "r", "o", "m", "L", "a", "b", "e", "l">>
    [] n = "funnelingLabels" -> <<"f", "u", "n", "n", "e", "l", "i", "n", "g", "L", "a", "b", "e", "l", "s">>
    [] n = "staticCards" -> <<"s", "t", "a", "t", "i", "c", "C", "a", "r", "d", "s">>
    [] n = "seeAllLabel" -> <<"s", "e", "e", "A", "l", "l", "L", "a", "b", "e", "l">>
    [] n = "products" -> <<"p", "r", "o", "d", "u", "c", "t", "s">>
    [] n = "openCloseLabels" -> <<"o", "p", "e", "n", "C", "l", "o", "s", "e", "L", "a", "b", "e", "l", "s">>
    [] n = "previousNextLabels" -> <<"p", "r", "e", "v", "i", "o", "u", "s", "N", "e", "x", "t", "L", "a", "b", "e", "l", "s">>
    [] n = "muteUnmuteLabels" -> <<"m", "u", "t", "e", "U", "n", "m", "u", "t", "e", "L", "a", "b", "e", "l", "s">>
    [] n = "labels" -> <<"l", "a", "b", "e", "l", "s">>
    [] n = "moreLabel" -> <<"m", "o", "r", "e", "L", "a", "b", "e", "l">>
    [] n = "showLabels" -> <<"s", "h", "o", "w", "L", "a", "b", "e", "l", "s">>
    [] n = "checkboxLabel" -> <<"c", "h", "e", "c", "k", "b", "o", "x", "L", "a", "b", "e", "l">>
    [] n = "dialogTemplate" -> <<"d", "i", "a", "l", "o", "g", "T", "e", "m", "p", "l", "a", "t", "e">>
    [] n = "uuid" -> <<"u", "u", "i", "d">>
    [] n = "content" -> <<"c", "o", "n", "t", "e", "n", "t">>
    [] n = "body" -> <<"b", "o", "d", "y">>
    [] n = "component" -> <<"c", "o", "m", "p", "o", "n", "e", "n", "t">>
    [] n = "lab" -> <<"l", "a", "b">>
    [] n = "title" -> <<"t", "i", "t", "l", "e">>
    [] n = "teaser" -> <<"t", "e", "a", "s", "e", "r">>
    [] n = "_uid" -> <<"_", "u", "i", "d">>
    [] n = "0" -> <<"0">>
    [] n = "1" -> <<"1">>
    [] n = "2" -> <<"2">>

\* String.prototype.includes: needle occurs in hay as a substring
StringIncludes(hay, needle) ==
  LET h == Chars(hay)
      n == Chars(needle)
  IN  \E p \in 0..(Len(h) - Len(n)) : SubSeq(h, p + 1, p + Len(n)) = n

\* relationsToResolve.reduce((acc, item) => { const [key, value] =
\* item.split('.'); acc[key] = value; return acc; }, {}): for every
\* component name the value of the last item that names it
RelationsMap(rel) ==
  LET names == {rel[x][1] : x \in DOMAIN rel}
      last(c) == CHOOSE x \in DOMAIN rel :
                   /\ rel[x][1] = c
                   /\ \A y \in DOMAIN rel : rel[y][1] = c => y <= x
  IN  [c \in names |-> rel[last(c)][2]]

\* Object.keys(relationsMap)
ComponentNamesToResolve(rel) == DOMAIN RelationsMap(rel)

\* the order in which the keys of an object are enumerated (the order of the
\* fetched JSON), and the keys of an array
KeyOrder == <<"uuid", "_uid", "content", "body", "teaser", "component", "modelLabel", "modalTemplate", "funnelingLabels", "label", "lab", "title">>
IdxKeys == <<"0", "1", "2">>
IndexOf(key) == CHOOSE n \in DOMAIN IdxKeys : IdxKeys[n] = key
ObjectKeys(h, v) ==
  IF v.t = "ref" THEN SelectSeq(KeyOrder, LAMBDA k : k \in DOMAIN h[v.o])
  ELSE IF v.t = "arr" THEN SubSeq(IdxKeys, 1, Len(v.a))
  ELSE <<>>
Child(h, v, key) == IF v.t = "ref" THEN h[v.o][key] ELSE v.a[IndexOf(key)]

\* flatten(components) of the flat package: the leaves (strings, undefined,
\* empty arrays and objects) with their paths, depth first. It recurses into
\* every non-empty object and array with no cycle check: an object that is
\* reachable from itself makes it recurse until the stack overflows.
RECURSIVE Flatten(_, _, _, _)
RECURSIVE FlattenChildren(_, _, _, _, _, _)
Flatten(h, v, path, anc) ==
  LET keys == ObjectKeys(h, v)
  IN  IF keys = <<>> THEN [overflow |-> FALSE, leaves |-> <<[path |-> path, value |-> v]>>]
      ELSE IF v.t = "ref" /\ v.o \in anc THEN [overflow |-> TRUE, leaves |-> <<>>]
      ELSE FlattenChildren(h, v, keys, 1, path,
                           IF v.t = "ref" THEN anc \cup {v.o} ELSE anc)
FlattenChildren(h, v, keys, x, path, anc) ==
  IF x > Len(keys) THEN [overflow |-> FALSE, leaves |-> <<>>]
  ELSE LET one == Flatten(h, Child(h, v, keys[x]), Append(path, keys[x]), anc)
           rest == FlattenChildren(h, v, keys, x + 1, path, anc)
       IN  [overflow |-> one.overflow \/ rest.overflow,
            leaves |-> one.leaves \o rest.leaves]

\* findComponents: the leaves whose value is one of the component names,
\* each as (path of the parent, component name)
FindComponents(h, components, names) ==
  LET flat == Flatten(h, components, <<>>, {})
      hit(l) == l.value.t = "str" /\ l.value.s \in names
      keep == SelectSeq(flat.leaves, hit)
  IN  [overflow |-> flat.overflow,
       found |-> [x \in DOMAIN keep |->
                    [pointer |-> SubSeq(keep[x].path, 1, Len(keep[x].path) - 1),
                     name |-> keep[x].value.s]]]

\* get of lodash.get: the value at path, undefined where the path leaves
\* the value (the empty path addresses no property: undefined)
RECURSIVE Walk(_, _, _)
Walk(h, v, path) ==
  IF path = <<>> THEN v
  ELSE IF Head(path) \in {ObjectKeys(h, v)[x] : x \in DOMAIN ObjectKeys(h, v)}
         THEN Walk(h, Child(h, v, Head(path)), Tail(path))
         ELSE Undef
Get(h, v, path) == IF path = <<>> THEN Undef ELSE Walk(h, v, path)

\* !components
Falsy(v) == v.t = "undef" \/ (v.t = "str" /\ v.s = "")

\* dictionary?.[uid]: the entry, or undefined
DictionaryAt(dict, uid) ==
  IF uid.t = "str" /\ uid.s \in DOMAIN dict THEN Ref(dict[uid.s]) ELSE Undef

\* uids.map((uid) => dictionary?.[uid])
FetchedTemplates(dict, uids) == [x \in DOMAIN uids |-> DictionaryAt(dict, uids[x])]

\* dictionary?.[uid] || uid
FetchedTemplate(dict, uid) ==
  IF DictionaryAt(dict, uid) = Undef THEN uid ELSE DictionaryAt(dict, uid)

\* the test that selects the keys of a found component:
\* fieldsToResolve.includes(key), where fieldsToResolve = relationsMap[name]
\* is a string
IsFieldToResolve(fieldsToResolve, key) == StringIncludes(fieldsToResolve, key)

\* for (const key of Object.keys(nextComponentToResolve)) ...: the keys of
\* object o from position x on; st = [heap, changed]
RECURSIVE ResolveKeys(_, _, _, _, _, _)
ResolveKeys(st, dict, o, fieldsToResolve, keys, x) ==
  IF x > Len(keys) THEN st
  ELSE
    LET key == keys[x]
        val == st.heap[o][key]
        nxt ==
          IF ~IsFieldToResolve(fieldsToResolve, key) THEN st
          ELSE IF val.t = "arr"
            THEN IF ~(Len(val.a) > 0 /\ val.a[1].t = "str") THEN st
                 ELSE [heap |-> [st.heap EXCEPT ![o][key] = Arr(FetchedTemplates(dict, val.a))],
                       changed |-> TRUE]
          ELSE IF val.t = "str"
            THEN [heap |-> [st.heap EXCEPT ![o][key] = FetchedTemplate(dict, val)],
                  changed |-> TRUE]
          ELSE st
    IN  ResolveKeys(nxt, dict, o, fieldsToResolve, keys, x + 1)

\* for (const foundComponent of foundComponents) ...: the found components
\* from position x on; st = [heap, changed, error]. Object.keys(undefined)
\* throws a TypeError. The keys of an array are its indices, which are
\* digits only and so are included in no field name.
RECURSIVE ResolveFound(_, _, _, _, _, _)
ResolveFound(st, dict, components, relationsMap, found, x) ==
  IF x > Len(found) \/ st.error # "none" THEN st
  ELSE
    LET nextComponentToResolve == Get(st.heap, components, found[x].pointer)
        fieldsToResolve == relationsMap[found[x].name]
        nxt ==
          IF nextComponentToResolve.t = "undef"
            THEN [st EXCEPT !.error = "TypeError"]
          ELSE IF nextComponentToResolve.t = "ref"
            THEN LET r == ResolveKeys([heap |-> st.heap, changed |-> st.changed], dict,
                                      nextComponentToResolve.o, fieldsToResolve,
                                      ObjectKeys(st.heap, nextComponentToResolve), 1)
                 IN  [heap |-> r.heap, changed |-> r.changed, error |-> "none"]
          ELSE st
    IN  ResolveFound(nxt, dict, components, relationsMap, found, x + 1)

RECURSIVE CreateReferencedStoriesDictionary_firstWins(_, _, _, _)
CreateReferencedStoriesDictionary_firstWins(h, sts, x, acc) ==
  IF x > Len(sts) THEN acc
  ELSE CreateReferencedStoriesDictionary_firstWins(h, sts, x + 1,
         [u \in DOMAIN acc \cup {h[sts[x]].uuid.s} |->
            IF u \in DOMAIN acc THEN acc[u] ELSE sts[x]])

\* createReferencedStoriesDictionary: acc[story.uuid] = story, in order
RECURSIVE CreateReferencedStoriesDictionary(_, _, _, _)
CreateReferencedStoriesDictionary(h, sts, x, acc) ==
  IF x > Len(sts) THEN acc
  ELSE CreateReferencedStoriesDictionary(h, sts, x + 1,
         [u \in DOMAIN acc \cup {h[sts[x]].uuid.s} |->
            IF u = h[sts[x]].uuid.s THEN sts[x] ELSE acc[u]])

\* get(storyData, 'content.body')
Components(h, story) == Get(h, Ref(story), <<"content", "body">>)

(***************************************************************************)
(* The stories the resolution starts from.                                 *)
(***************************************************************************)
\* the identifiers of the fetched stories, in fetch order; "u9" names no story
StoryUuids == <<"u1", "u2">>

\* the object ids of story k: the entry, its content, the component in its body
StoryOid(k) == 3 * k - 2
ContentOid(k) == 3 * k - 1
ComponentOid(k) == 3 * k

\* a component of type c with one field
Component1(c, k, v) ==
  [x \in {"component", k} |-> IF x = "component" THEN Str(c) ELSE v]

\* values of a field of the component of the first story: the story's own
\* identifier, another story's, one that names no story, and arrays of them
FieldVals ==
  {Str("u1"), Str("u2"), Str("u9"),
   Arr(<<Str("u2"), Str("u9")>>), Arr(<<Str("u2")>>), Arr(<<>>),
   Arr(<<Str("u2"), Num(7)>>), Arr(<<Num(7), Str("u2")>>)}

\* the component of the first story: a declared type (Target, List) or an
\* undeclared one (Hero), with one field, or with all three fields declared
\* for Target
FirstComponents ==
  {Component1(c, k, v) :
     c \in {"Target", "List", "Hero"},
     k \in {"modelLabel", "funnelingLabels", "label", "lab", "title"},
     v \in FieldVals}
  \cup
  {[component |-> Str(c), modelLabel |-> Str("u2"), modalTemplate |-> Str("u2"),
    funnelingLabels |-> Arr(<<Str("u2")>>)] : c \in {"Target", "List", "Hero"}}

\* the component of the second story (NoComponent: its content has no body)
NoComponent == [component |-> Undef]
SecondComponents ==
  {Component1("Hero", "title", Str("u1")),
   Component1("List", "label", Str("u1")),
   Component1("List", "label", Str("u9")),
   NoComponent}

\* the objects of story k with identifier uuid, whose content holds
\* component comp under key at (none if comp is NoComponent)
StoryObjectsAt(k, uuid, at, comp) ==
  IF comp = NoComponent
    THEN [o \in {StoryOid(k), ContentOid(k)} |->
            IF o = StoryOid(k)
              THEN [uuid |-> Str(uuid), content |-> Ref(ContentOid(k))]
              ELSE [title |-> Str("plain")]]
    ELSE [o \in {StoryOid(k), ContentOid(k), ComponentOid(k)} |->
            IF o = StoryOid(k)
              THEN [uuid |-> Str(uuid), content |-> Ref(ContentOid(k))]
            ELSE IF o = ContentOid(k)
              THEN IF at = "body"
                     THEN [title |-> Str("plain"),
                           body |-> Arr(<<Ref(ComponentOid(k))>>)]
                     ELSE [title |-> Str("plain"),
                           teaser |-> Arr(<<Ref(ComponentOid(k))>>)]
            ELSE comp]

\* the objects of story k with component comp
StoryObjects(k, comp) == StoryObjectsAt(k, StoryUuids[k], "body", comp)

\* the second story: its own identifier and a body; the identifier of the
\* first story (the API returned two entries with one uuid); or no body but
\* a component under another key of its content
SecondStories ==
  {StoryObjects(2, c) : c \in SecondComponents}
  \cup {StoryObjectsAt(2, StoryUuids[1], "body",
                       Component1("Hero", "title", Str("plain")))}
  \cup {StoryObjectsAt(2, StoryUuids[2], "teaser",
                       Component1("List", "label", Arr(<<Str("u9")>>)))}

\* resolveRelationsForStory: k !== 'uuid' && k !== '_uid'
ReservedKeys == {"uuid", "_uid"}

\* the fetch is not part of the resolution: its variables stay as they are
FetchDone ==
  /\ serverN = 0
  /\ header = HeaderAbsent
  /\ pc = "returned"
  /\ retryAttempts = DefaultRetryAttempts
  /\ retries = 0
  /\ calls = 1
  /\ pauses = <<>>
  /\ lastCause = NoError
  /\ thrown = NoError
  /\ total = 0
  /\ totalPages = 0
  /\ allStories = <<>>
  /\ promisesFuncs = <<>>
  /\ bulkSize = FetchBulkSize
  /\ maxRetries = DefaultMaxRetries
  /\ initialBackoff = DefaultInitialBackoff
  /\ delayMultiplier = DefaultDelayMultiplier
  /\ i = 0
  /\ results = <<>>
  /\ ops = <<>>
  /\ log = <<>>
  /\ firstRequests = 1
  /\ outOfOrder = FALSE

\* getAllStories after fetchMarketStories returned the stories
InitResolve ==
  /\ FetchDone
  /\ \E c1 \in FirstComponents :
       \/ /\ heap = StoryObjects(1, c1)
          /\ stories = <<StoryOid(1)>>
       \/ \E s2 \in SecondStories :
            /\ heap = StoryObjects(1, c1) @@ s2
            /\ stories = <<StoryOid(1), StoryOid(2)>>
  /\ raw = heap
  /\ dictionary = <<>>
  /\ rpc = "fetched"
  /\ cur = 0
  /\ counter = 0
  /\ iterations = [k \in DOMAIN stories |-> 0]
  /\ rerror = "none"
  /\ pass = 1
  /\ snapshot = <<>>
  /\ exits = [k \in DOMAIN stories |-> "none"]
  /\ reservedKeys = ReservedKeys

(***************************************************************************)
(* Actions of the resolution.                                              *)
(***************************************************************************)
\* getAllStories: referencedStoriesDictionary =
\* this.createReferencedStoriesDictionary(stories), then resolveRelations
CreateDictionary ==
  /\ rpc = "fetched"
  /\ dictionary' = CreateReferencedStoriesDictionary(heap, stories, 1, <<>>)
  /\ rpc' = "resolve"
  /\ cur' = 1
  /\ UNCHANGED <<heap, raw, stories, counter, iterations, rerror, pass,
                 snapshot, exits, reservedKeys>>
  /\ UNCHANGED fetchVars

\* resolveNestedComponents returned for story cur: stories.map goes on
Returned(k) == IF k + 1 > Len(stories) THEN "done" ELSE "resolve"

\* resolveNestedComponents up to its loop: get(storyData, pathToComponents)
\* and the early return
ResolveBegin ==
  /\ rpc = "resolve"
  /\ IF Falsy(Components(heap, stories[cur]))
       THEN /\ rpc' = Returned(cur)
            /\ cur' = cur + 1
            /\ exits' = [exits EXCEPT ![cur] = "nobody"]
       ELSE /\ rpc' = "loop"
            /\ cur' = cur
            /\ exits' = [exits EXCEPT ![cur] = "none"]
  /\ counter' = 0
  /\ UNCHANGED <<heap, raw, stories, dictionary, iterations, rerror, pass,
                 snapshot, reservedKeys>>
  /\ UNCHANGED fetchVars

\* one test of the while condition (findComponents, then counter <=
\* maxLevelOfNesting) and, if it holds, one pass of the loop body
ResolveIterate ==
  /\ rpc = "loop"
  /\ LET components == Components(heap, stories[cur])
         fc == FindComponents(heap, components,
                              ComponentNamesToResolve(RELATIONS_TO_RESOLVE))
         r == ResolveFound([heap |-> heap, changed |-> FALSE, error |-> "none"],
                           dictionary, components,
                           RelationsMap(RELATIONS_TO_RESOLVE), fc.found, 1)
     IN  IF fc.overflow
           THEN /\ rpc' = "thrown"
                /\ rerror' = "RangeError"
                /\ UNCHANGED <<heap, cur, counter, iterations, exits>>
         ELSE IF counter <= MaxLevelOfNesting
           THEN /\ heap' = r.heap
                /\ counter' = counter + 1
                /\ iterations' = [iterations EXCEPT ![cur] = @ + 1]
                /\ rerror' = r.error
                /\ IF r.error # "none"
                     THEN rpc' = "thrown" /\ cur' = cur /\ exits' = exits
                     ELSE IF ~r.changed
                       THEN /\ rpc' = Returned(cur)
                            /\ cur' = cur + 1
                            /\ exits' = [exits EXCEPT ![cur] = "nochange"]
                       ELSE rpc' = "loop" /\ cur' = cur /\ exits' = exits
           ELSE /\ rpc' = Returned(cur)
                /\ cur' = cur + 1
                /\ exits' = [exits EXCEPT ![cur] = "cap"]
                /\ UNCHANGED <<heap, counter, iterations, rerror>>
  /\ UNCHANGED <<raw, stories, dictionary, pass, snapshot, reservedKeys>>
  /\ UNCHANGED fetchVars

NextResolve ==
  \/ CreateDictionary
  \/ ResolveBegin
  \/ ResolveIterate

SpecResolve == InitResolve /\ [][NextResolve]_vars

\* resolveRelations is applied once more to the stories it has resolved:
\* resolveNestedComponents runs a second time on each of them, with the
\* same dictionary
ResolveAgain ==
  /\ rpc = "done"
  /\ pass = 1
  /\ pass' = 2
  /\ snapshot' = heap
  /\ rpc' = "resolve"
  /\ cur' = 1
  /\ counter' = 0
  /\ iterations' = [k \in DOMAIN stories |-> 0]
  /\ exits' = [k \in DOMAIN stories |-> "none"]
  /\ UNCHANGED <<heap, raw, stories, dictionary, rerror, reservedKeys>>
  /\ UNCHANGED fetchVars

NextResolveTwice ==
  \/ NextResolve
  \/ ResolveAgain

SpecResolveTwice == InitResolve /\ [][NextResolveTwice]_vars

(***************************************************************************)
(* The whole-tree strategy: resolveRelationsForStory. In part_001 it skips *)
(* the keys uuid and _uid and is no longer called; in                      *)
(* src/storyblok-fast-client.ts it skips no key and is what                *)
(* resolveRelations applies to every story.                                *)
(***************************************************************************)
\* src/storyblok-fast-client.ts: if (v !== null)
NoReservedKeys == {}

\* resolveRelationsForStory(story, dictionary) for the object o;
\* st = [heap, overflow], rk the keys it skips. Neither revision keeps
\* track of the objects it is in: a call on an object that an enclosing
\* call is still iterating over repeats that call's descent without end,
\* until the stack overflows (stack holds the objects of the enclosing
\* calls).
RECURSIVE ResolveRelationsForStory(_, _, _, _, _)
RECURSIVE ResolveEntries(_, _, _, _, _, _, _)
RECURSIVE ResolveItems(_, _, _, _, _, _, _)
ResolveRelationsForStory(st, dict, o, stack, rk) ==
  IF st.overflow THEN st
  ELSE IF o \in stack THEN [st EXCEPT !.overflow = TRUE]
  ELSE LET keys == ObjectKeys(st.heap, Ref(o))
           entries == [x \in DOMAIN keys |->
                         [k |-> keys[x], v |-> st.heap[o][keys[x]]]]
       IN  ResolveEntries(st, dict, o, entries, 1, stack \cup {o}, rk)

\* for (const [k, v] of Object.entries(story)) ...: the entries from
\* position x on
ResolveEntries(st, dict, o, entries, x, stack, rk) ==
  IF x > Len(entries) \/ st.overflow THEN st
  ELSE
    LET k == entries[x].k
        v == entries[x].v
        nxt ==
          IF k \in rk THEN st
          ELSE IF v.t = "arr"
            THEN LET r == ResolveItems(st, dict, v.a, 1, <<>>, stack, rk)
                 IN  IF r.st.overflow THEN r.st
                     ELSE [r.st EXCEPT !.heap[o][k] = Arr(r.items)]
          ELSE IF v.t = "ref"
            THEN ResolveRelationsForStory(st, dict, v.o, stack, rk)
          ELSE IF DictionaryAt(dict, v) # Undef
            THEN ResolveRelationsForStory(
                   [st EXCEPT !.heap[o][k] = DictionaryAt(dict, v)],
                   dict, dict[v.s], stack, rk)
          ELSE st
    IN  ResolveEntries(nxt, dict, o, entries, x + 1, stack, rk)

\* v.map((item) => ...): the items from position x on, out the new array
ResolveItems(st, dict, items, x, out, stack, rk) ==
  IF x > Len(items) \/ st.overflow THEN [st |-> st, items |-> out]
  ELSE
    LET item == items[x]
    IN  IF item.t = "ref"
          THEN ResolveItems(ResolveRelationsForStory(st, dict, item.o, stack, rk),
                            dict, items, x + 1, Append(out, item), stack, rk)
        ELSE IF DictionaryAt(dict, item) # Undef
          THEN ResolveItems(st, dict, items, x + 1,
                            Append(out, DictionaryAt(dict, item)), stack, rk)
        ELSE ResolveItems(st, dict, items, x + 1, Append(out, item), stack, rk)

\* the values of a field of a component of the whole-tree inputs
WholeVals ==
  {Str("u1"), Str("u2"), Str("u9"), Arr(<<Str("u2"), Str("u9")>>), Arr(<<>>)}

\* the component of the first story: an identifier field (uuid or _uid)
\* that holds an identifier of an entry or its own, and a field
WholeFirstComponents ==
  {[_uid |-> Str(a), component |-> Str("Hero"), label |-> v] :
     a \in {"u1", "u2", "c1"}, v \in WholeVals}
  \cup
  {[uuid |-> Str(a), component |-> Str("Hero"), label |-> v] :
     a \in {"u1", "u2", "c1"}, v \in WholeVals}

\* the component of the second story
WholeSecondComponents ==
  {[_uid |-> Str("u1"), component |-> Str("Hero"), label |-> Str("u1")],
   [_uid |-> Str("c2"), component |-> Str("Hero"), label |-> Str("u9")],
   [_uid |-> Str("u2"), component |-> Str("Hero"), label |-> Arr(<<Str("u1")>>)],
   NoComponent}

\* getAllStories after fetchMarketStories returned the stories, in either
\* revision of resolveRelationsForStory
InitWhole ==
  /\ FetchDone
  /\ \E c1 \in WholeFirstComponents :
       \/ /\ heap = StoryObjects(1, c1)
          /\ stories = <<StoryOid(1)>>
       \/ \E c2 \in WholeSecondComponents :
            /\ heap = StoryObjects(1, c1) @@ StoryObjects(2, c2)
            /\ stories = <<StoryOid(1), StoryOid(2)>>
  /\ raw = heap
  /\ dictionary = <<>>
  /\ rpc = "fetched"
  /\ cur = 0
  /\ counter = 0
  /\ iterations = [k \in DOMAIN stories |-> 0]
  /\ rerror = "none"
  /\ pass = 1
  /\ snapshot = <<>>
  /\ exits = [k \in DOMAIN stories |-> "none"]
  /\ reservedKeys \in {ReservedKeys, NoReservedKeys}

\* stories.map((story) => this.resolveRelationsForStory(story, dictionary))
\* for the story stories.map is at
WholeTreeStory ==
  /\ rpc = "resolve"
  /\ LET r == ResolveRelationsForStory([heap |-> heap, overflow |-> FALSE],
                                       dictionary, stories[cur], {},
                                       reservedKeys)
     IN  /\ heap' = r.heap
         /\ IF r.overflow
              THEN /\ rpc' = "thrown"
                   /\ rerror' = "RangeError"
                   /\ cur' = cur
              ELSE /\ rpc' = Returned(cur)
                   /\ rerror' = rerror
                   /\ cur' = cur + 1
  /\ UNCHANGED <<raw, stories, dictionary, counter, iterations, pass,
                 snapshot, exits, reservedKeys>>
  /\ UNCHANGED fetchVars

NextWhole ==
  \/ CreateDictionary
  \/ WholeTreeStory

SpecWholeTree == InitWhole /\ [][NextWhole]_vars

(***************************************************************************)
(* Properties of the resolution.                                           *)
(***************************************************************************)
\* the component instances under content.body of the fetched stories
BodyComponents ==
  {ComponentOid(k) :
     k \in {x \in DOMAIN stories : /\ ComponentOid(x) \in DOMAIN raw
                                   /\ "body" \in DOMAIN raw[ContentOid(x)]}}

\* 'c.f' is listed in RELATIONS_TO_RESOLVE
Declared(c, f) ==
  \E x \in DOMAIN RELATIONS_TO_RESOLVE : RELATIONS_TO_RESOLVE[x] = <<c, f>>

ComponentType(o) == raw[o].component.s

\* the entry an identifier names, or the identifier itself if it names none
EntryOrId(id) ==
  IF id.s \in DOMAIN dictionary THEN Ref(dictionary[id.s]) ELSE id

IsStringSeq(v) ==
  v.t = "arr" /\ Len(v.a) > 0 /\ \A x \in DOMAIN v.a : v.a[x].t = "str"

\* C7: after the resolution, a declared field of a component instance under
\* content.body that held a string s holds dictionary[s] if s is a
\* dictionary key, and still s if it is not.
C7_DeclaredStringResolved ==
  (rpc = "done") =>
    \A o \in BodyComponents : \A f \in DOMAIN raw[o] :
      (Declared(ComponentType(o), f) /\ raw[o][f].t = "str")
        => heap[o][f] = EntryOrId(raw[o][f])

\* C8: after the resolution, a declared field that held a sequence of
\* strings holds, element by element, dictionary[id] where id is a
\* dictionary key and the original id where it is not (never an undefined
\* or made up element).
C8_SequenceResolved ==
  (rpc = "done") =>
    \A o \in BodyComponents : \A f \in DOMAIN raw[o] :
      (Declared(ComponentType(o), f) /\ IsStringSeq(raw[o][f]))
        => /\ heap[o][f].t = "arr"
           /\ Len(heap[o][f].a) = Len(raw[o][f].a)
           /\ \A x \in DOMAIN raw[o][f].a :
                heap[o][f].a[x] = EntryOrId(raw[o][f].a[x])

\* C9: every field declared for a component type is resolved on every
\* instance of that type where it is present: none of the declared fields
\* that named an entry of the dictionary is left holding the bare identifier.
C9_AllDeclaredFieldsResolved ==
  (rpc = "done") =>
    \A o \in BodyComponents :
      LET declared == {f \in DOMAIN raw[o] : Declared(ComponentType(o), f)}
          naming == {f \in declared :
                       \/ raw[o][f].t = "str" /\ raw[o][f].s \in DOMAIN dictionary
                       \/ /\ IsStringSeq(raw[o][f])
                          /\ \E x \in DOMAIN raw[o][f].a :
                               raw[o][f].a[x].s \in DOMAIN dictionary}
      IN  {f \in naming : heap[o][f] = raw[o][f]} = {}

\* C10: a field whose name is not one of the field names declared for the
\* component's type is never replaced, whatever its value and its name.
C10_OnlyDeclaredFields ==
  \A o \in BodyComponents : \A f \in DOMAIN raw[o] :
    ~Declared(ComponentType(o), f) => heap[o][f] = raw[o][f]

\* the objects a value refers to directly
RefsOf(v) ==
  IF v.t = "ref" THEN {v.o}
  ELSE IF v.t = "arr"
    THEN {v.a[x].o : x \in {y \in DOMAIN v.a : v.a[y].t = "ref"}}
  ELSE {}

\* the objects reachable in h from the objects of todo
RECURSIVE Reach(_, _, _)
Reach(h, todo, seen) ==
  IF todo = {} THEN seen
  ELSE LET o == CHOOSE x \in todo : TRUE
           kids == UNION {RefsOf(h[o][f]) : f \in DOMAIN h[o]}
       IN  Reach(h, (todo \cup kids) \ (seen \cup {o}), seen \cup {o})

\* the second run changes no entry
SecondRunNoChange == (pass = 2) => heap = snapshot

\* C11: a second run of resolveNestedComponents on a resolved entry changes
\* nothing, and it leaves its loop through the no-change flag (or the early
\* return), never through the iteration cap.
C11_SecondRunIdempotent ==
  /\ SecondRunNoChange
  /\ (pass = 2) => \A k \in DOMAIN exits : exits[k] # "cap"

\* C12: the declared-field resolution never ends by exhausting the stack:
\* resolveNestedComponents returns for every story and dictionary, entries
\* that reference each other through declared fields included.
C12_ResolverReturns == rerror # "RangeError"

\* C13: during resolveRelations every entry of the dictionary equals the
\* entry as fetched: none of the objects it is made of has changed.
C13_DictionaryReadOnly ==
  \A u \in DOMAIN dictionary :
    \A o \in Reach(raw, {dictionary[u]}, {}) : heap[o] = raw[o]

\* the index of the last story that carries identifier u
LastWith(u) ==
  CHOOSE k \in DOMAIN stories :
    /\ raw[stories[k]].uuid.s = u
    /\ \A j \in DOMAIN stories : raw[stories[j]].uuid.s = u => j <= k

\* C16: the dictionary createReferencedStoriesDictionary returns has exactly
\* the uuids of the entries as keys, each key maps to the last entry in
\* fetch order that carries it, and building it changes no entry.
C16_DictionaryBuilt ==
  (rpc \notin {"idle", "fetched"}) =>
    /\ DOMAIN dictionary = {raw[stories[k]].uuid.s : k \in DOMAIN stories}
    /\ \A u \in DOMAIN dictionary : dictionary[u] = stories[LastWith(u)]
    /\ (rpc = "resolve" /\ cur = 1 /\ pass = 1) => heap = raw

\* two fetched entries carry one uuid and the dictionary has been built
C16_Witness ==
  /\ rpc = "resolve"
  /\ cur = 1
  /\ Len(stories) = 2
  /\ raw[stories[1]].uuid = raw[stories[2]].uuid
  /\ dictionary = [u \in {raw[stories[1]].uuid.s} |-> stories[2]]

\* C17: the loop of resolveNestedComponents runs its body at most
\* maxLevelOfNesting = 10 times for a story.
C17_IterationCap ==
  \A k \in DOMAIN iterations : iterations[k] <= MaxLevelOfNesting

\* C18: a declared field of a component under content.body that holds an
\* empty sequence, or a sequence with an element that is not a string at
\* any position, is never changed.
C18_NonStringSequenceUntouched ==
  \A o \in BodyComponents : \A f \in DOMAIN raw[o] :
    (/\ Declared(ComponentType(o), f)
     /\ raw[o][f].t = "arr"
     /\ ~IsStringSeq(raw[o][f]))
      => heap[o][f] = raw[o][f]

\* the objects of story k that are not under its content.body
OutsideBody(k) ==
  {StoryOid(k), ContentOid(k)} \cup
  (IF "body" \in DOMAIN raw[ContentOid(k)] THEN {}
   ELSE Reach(raw, {ContentOid(k)}, {}))

\* C19: after resolveRelations every part of every story outside its own
\* content.body equals its fetched value; in particular a story with no
\* content.body is unchanged.
C19_OnlyBodySubtree ==
  (rpc = "done") =>
    \A k \in DOMAIN stories : \A o \in OutsideBody(k) :
      \A f \in DOMAIN raw[o] :
        (o = ContentOid(k) /\ f = "body") \/ heap[o][f] = raw[o][f]

\* where the keys uuid and _uid are skipped they keep their value
ReservedKeysKeptWhereSkipped ==
  (reservedKeys = ReservedKeys) =>
    \A o \in DOMAIN raw : \A k \in ReservedKeys \cap DOMAIN raw[o] :
      heap[o][k] = raw[o][k]

\* C14: in the whole-tree resolution a field named uuid or _uid keeps its
\* fetched value in every object, also inside substituted entries and also
\* when the value is an identifier of the dictionary.
C14_ReservedKeyPassThrough ==
  \A o \in DOMAIN raw : \A k \in ReservedKeys \cap DOMAIN raw[o] :
    heap[o][k] = raw[o][k]

\* entries A and B reference each other: A's content holds B's identifier
\* and B's content holds A's
MutualReference ==
  /\ Len(stories) = 2
  /\ \A o \in {ComponentOid(1), ComponentOid(2)} :
       o \in DOMAIN raw /\ "label" \in DOMAIN raw[o]
  /\ raw[ComponentOid(1)].label = Str(StoryUuids[2])
  /\ raw[ComponentOid(2)].label = Str(StoryUuids[1])

\* C15: resolveRelationsForStory returns on entries A and B that reference
\* each other, even where it skips the identifier keys: it never ends by
\* exhausting the stack.
C15_WholeTreeTerminates ==
  (reservedKeys = ReservedKeys /\ MutualReference) => rpc # "thrown"

=============================================================================
